---- MODULE Spec2Model ----
(***************************************************************************)
(* Model of the KWin script toshy-dbus-notifyactivewindow (main.js).       *)
(*                                                                         *)
(* The script declares notifyActiveWindow(window) and connects it to       *)
(* workspace.windowActivated.  On each activation the handler either logs  *)
(* (falsy handle) or reads three attributes of the handle behind           *)
(* hasOwnProperty checks and hands them to callDBus.                       *)
(*                                                                         *)
(* JavaScript values are tagged records, so that the checks the code       *)
(* makes (truthiness of the handle, own-property lookup, property read     *)
(* through the prototype) are computed the way the language computes them. *)
(***************************************************************************)
EXTENDS Integers, Sequences, FiniteSets, TLC

\* Number of activation events the host delivers in a run.
MaxEvents == 2

----------------------------------------------------------------------------
\* JavaScript values

Str(s) == [type |-> "string", val |-> s]

JSNull == [type |-> "null"]

JSUndefined == [type |-> "undefined"]

\* ToBoolean, as applied by `!window`.
ToBoolean(v) ==
    CASE v.type = "null"      -> FALSE
      [] v.type = "undefined" -> FALSE
      [] v.type = "string"    -> v.val # ""
      [] v.type = "object"    -> TRUE

\* window.hasOwnProperty(name): own properties only, whatever their value.
HasOwnProperty(window, name) == name \in DOMAIN window.own

\* window[name]: the own property, else the prototype's, else undefined.
Get(window, name) ==
    IF name \in DOMAIN window.own THEN window.own[name]
    ELSE IF name \in DOMAIN window.proto THEN window.proto[name]
    ELSE JSUndefined

----------------------------------------------------------------------------
\* The handles the host may deliver

AttrNames == {"caption", "resourceClass", "resourceName"}

\* Position of each attribute among the payload arguments of callDBus.
Pos(name) ==
    CASE name = "caption"       -> 1
      [] name = "resourceClass" -> 2
      [] name = "resourceName"  -> 3

SampleValue(name) ==
    CASE name = "caption"       -> "Terminal"
      [] name = "resourceClass" -> "org.kde.konsole"
      [] name = "resourceName"  -> "konsole"

\* How an attribute can sit on a handle: not at all, as an own string, or
\* in one of the unusual ways (own empty string, own null, own undefined,
\* readable through the prototype only).
PlainKinds == {"absent", "own"}

OddKinds == {"empty", "null", "undefined", "inherited"}

OwnValue(name, kind) ==
    CASE kind = "own"       -> Str(SampleValue(name))
      [] kind = "empty"     -> Str("")
      [] kind = "null"      -> JSNull
      [] kind = "undefined" -> JSUndefined

\* Every combination of plain kinds; and every unusual kind in each position,
\* with the other two attributes both absent or both own strings.
Shapes ==
    { k \in [AttrNames -> PlainKinds \cup OddKinds] :
        \/ \A n \in AttrNames : k[n] \in PlainKinds
        \/ \E n \in AttrNames :
              /\ k[n] \in OddKinds
              /\ \E p \in PlainKinds : \A m \in AttrNames \ {n} : k[m] = p }

MkWindow(k) ==
    [ type  |-> "object",
      own   |-> [ n \in { a \in AttrNames : k[a] \notin {"absent", "inherited"} }
                    |-> OwnValue(n, k[n]) ],
      proto |-> [ n \in { a \in AttrNames : k[a] = "inherited" }
                    |-> Str(SampleValue(n)) ] ]

\* The argument of the windowActivated signal: a window object, or null
\* (task switcher has focus).
WindowHandles == { MkWindow(k) : k \in Shapes } \cup {JSNull}

\* What becomes of a message handed to callDBus; the script passes no
\* callback and never learns which.
Outcomes == {"delivered", "failed"}

----------------------------------------------------------------------------
\* State

VARIABLES
    pc,           \* "load": script not yet evaluated; "running": evaluated
    subscribers,  \* slots connected to workspace.windowActivated, in order
    events,       \* handles delivered so far (history)
    calls,        \* callDBus invocations so far: [ev, msg, outcome]
    log,          \* console.log lines so far: [ev, text]
    invocations   \* number of times notifyActiveWindow was entered

vars == <<pc, subscribers, events, calls, log, invocations>>

----------------------------------------------------------------------------
\* notifyActiveWindow

\* console.log("The client object is null")
LogNull_Silent(st, ev) == st

LogNull(st, ev) ==
    [st EXCEPT !.log = Append(@, [ev |-> ev, text |-> "The client object is null"])]

\* var x = window.hasOwnProperty('x') ? window.x : "UNDEF"
ResolveAttr_WrongKey(window, name) ==
    IF HasOwnProperty(window, "caption") THEN Get(window, name) ELSE Str("UNDEF")

ResolveAttr_Truthy(window, name) ==
    IF ToBoolean(Get(window, name)) THEN Get(window, name) ELSE Str("UNDEF")

ResolveAttr_In(window, name) ==
    IF name \in DOMAIN window.own \cup DOMAIN window.proto
    THEN Get(window, name) ELSE Str("UNDEF")

ResolveAttr(window, name) ==
    IF HasOwnProperty(window, name) THEN Get(window, name) ELSE Str("UNDEF")

\* The three payload arguments, in the order they are passed.
Payload_Swapped(window) ==
    << ResolveAttr(window, "caption"),
       ResolveAttr(window, "resourceName"),
       ResolveAttr(window, "resourceClass") >>

Payload(window) ==
    << ResolveAttr(window, "caption"),
       ResolveAttr(window, "resourceClass"),
       ResolveAttr(window, "resourceName") >>

\* The argument list of the callDBus call.
Message_WrongPath(window) ==
    [ service   |-> "org.toshy.Toshy",
      path      |-> "/org/toshy/toshy",
      interface |-> "org.toshy.Toshy",
      method    |-> "NotifyActiveWindow",
      args      |-> Payload(window) ]

Message(window) ==
    [ service   |-> "org.toshy.Toshy",
      path      |-> "/org/toshy/Toshy",
      interface |-> "org.toshy.Toshy",
      method    |-> "NotifyActiveWindow",
      args      |-> Payload(window) ]

\* callDBus(...): one dispatch, no callback, result not inspected.
callDBus_Dedup(st, msg, outcome, ev) ==
    IF st.calls # <<>> /\ st.calls[Len(st.calls)].msg = msg
    THEN st
    ELSE [st EXCEPT !.calls = Append(@, [ev |-> ev, msg |-> msg, outcome |-> outcome])]

callDBus_Retry(st, msg, outcome, ev) ==
    LET once == [st EXCEPT !.calls =
                    Append(@, [ev |-> ev, msg |-> msg, outcome |-> outcome])]
    IN  IF outcome = "failed"
        THEN [once EXCEPT !.calls =
                    Append(@, [ev |-> ev, msg |-> msg, outcome |-> "delivered"])]
        ELSE once

callDBus(st, msg, outcome, ev) ==
    [st EXCEPT !.calls = Append(@, [ev |-> ev, msg |-> msg, outcome |-> outcome])]

\* The handler, from the state st at entry to the state at return.  ev is
\* the index of the event being handled, outcome the fate of its message.
notifyActiveWindow_Cached(window, outcome, st, ev) ==
    LET entered == [st EXCEPT !.invocations = @ + 1]
        last(n) == IF st.calls = <<>> THEN Str("UNDEF")
                   ELSE st.calls[Len(st.calls)].msg.args[Pos(n)]
        arg(n)  == IF HasOwnProperty(window, n) THEN Get(window, n) ELSE last(n)
    IN  IF ~ToBoolean(window)
        THEN LogNull(entered, ev)
        ELSE callDBus(entered,
                      [Message(window) EXCEPT
                          !.args = <<arg("caption"), arg("resourceClass"),
                                     arg("resourceName")>>],
                      outcome, ev)

notifyActiveWindow(window, outcome, st, ev) ==
    LET entered == [st EXCEPT !.invocations = @ + 1]
    IN  IF ~ToBoolean(window)
        THEN LogNull(entered, ev)
        ELSE callDBus(entered, Message(window), outcome, ev)

----------------------------------------------------------------------------
\* The signal

\* workspace.windowActivated.connect(notifyActiveWindow)
Connect_Both(slots) == Append(Append(slots, "notifyActiveWindow"), "notifyActiveWindow")

Connect(slots) == Append(slots, "notifyActiveWindow")

\* Emission of the signal: every connected slot is called, in order.
RECURSIVE Emit(_, _, _, _, _)
Emit(slots, window, outcome, st, ev) ==
    IF slots = <<>> THEN st
    ELSE Emit(Tail(slots), window, outcome,
              notifyActiveWindow(window, outcome, st, ev), ev)

\* A state with nothing dispatched and nothing logged.
Fresh == [calls |-> <<>>, log |-> <<>>, invocations |-> 0]

----------------------------------------------------------------------------
\* Specification

Init ==
    /\ pc = "load"
    /\ subscribers = <<>>
    /\ events = <<>>
    /\ calls = <<>>
    /\ log = <<>>
    /\ invocations = 0

\* The host evaluates the script: the top-level connect runs once.
Load ==
    /\ pc = "load"
    /\ pc' = "running"
    /\ subscribers' = Connect(subscribers)
    /\ UNCHANGED <<events, calls, log, invocations>>

\* The host activates a window and emits the signal.
WindowActivated(window, outcome) ==
    /\ pc = "running"
    /\ Len(events) < MaxEvents
    /\ events' = Append(events, window)
    /\ LET st == Emit(subscribers, window, outcome,
                      [calls |-> calls, log |-> log, invocations |-> invocations],
                      Len(events) + 1)
       IN  /\ calls' = st.calls
           /\ log' = st.log
           /\ invocations' = st.invocations
    /\ UNCHANGED <<pc, subscribers>>

Next ==
    \/ Load
    \/ \E window \in WindowHandles, outcome \in Outcomes :
          WindowActivated(window, outcome)

Spec == Init /\ [][Next]_vars

----------------------------------------------------------------------------
\* Reading the history

EventIdx == 1 .. Len(events)

IsNull(i) == events[i] = JSNull

\* The dispatches and the log lines made while event i was handled.
CallsOf(i) == SelectSeq(calls, LAMBDA c : c.ev = i)

LogOf(i) == SelectSeq(log, LAMBDA l : l.ev = i)

Msgs(s) == [k \in 1 .. Len(s) |-> s[k].msg]

Texts(s) == [k \in 1 .. Len(s) |-> s[k].text]

\* The payload argument sent for attribute n of event i (one call made).
ArgOf(i, n) == CallsOf(i)[1].msg.args[Pos(n)]

\* No message dispatched before event h was lost.
NoFailureBefore(h) ==
    \A c \in 1 .. Len(calls) : calls[c].ev < h => calls[c].outcome = "delivered"

----------------------------------------------------------------------------
\* Properties

\* C1: an activation event whose handle is null causes no callDBus call and
\* exactly one log line.
C1_NullHandle ==
    \A i \in EventIdx :
        IsNull(i) => /\ Len(CallsOf(i)) = 0
                     /\ Len(LogOf(i)) = 1
                     /\ LogOf(i)[1].text = "The client object is null"

C1_Witness ==
    \E i \in EventIdx : IsNull(i) /\ invocations >= i

\* C2: a handle with caption, resourceClass and resourceName all present
\* causes exactly one call whose payload is those three values in that order,
\* and no log line.
C2_AllPresent ==
    \A i \in EventIdx :
        (~IsNull(i) /\ DOMAIN events[i].own = AttrNames) =>
            /\ Len(CallsOf(i)) = 1
            /\ CallsOf(i)[1].msg.args =
                 << events[i].own["caption"],
                    events[i].own["resourceClass"],
                    events[i].own["resourceName"] >>
            /\ LogOf(i) = <<>>

C2_Witness ==
    \E i \in EventIdx :
        /\ ~IsNull(i)
        /\ DOMAIN events[i].own = AttrNames
        /\ \A n \in AttrNames : events[i].own[n] = Str(SampleValue(n))
        /\ Len(CallsOf(i)) = 1

\* C3: for a non-null handle each payload position carries its attribute's
\* value if the attribute is present and "UNDEF" if it is absent, and the
\* argument sent for one attribute does not depend on the other two.
C3_EachAttribute ==
    /\ \A i \in EventIdx :
          ~IsNull(i) =>
              /\ Len(CallsOf(i)) = 1
              /\ \A n \in AttrNames :
                    ArgOf(i, n) = IF n \in DOMAIN events[i].own
                                  THEN events[i].own[n]
                                  ELSE Str("UNDEF")
    /\ \A i, j \in EventIdx : \A n \in AttrNames :
          ( /\ ~IsNull(i) /\ ~IsNull(j)
            /\ Len(CallsOf(i)) = 1 /\ Len(CallsOf(j)) = 1
            /\ (n \in DOMAIN events[i].own) = (n \in DOMAIN events[j].own)
            /\ (n \in DOMAIN events[i].own => events[i].own[n] = events[j].own[n]) )
          => ArgOf(i, n) = ArgOf(j, n)

C3_Witness ==
    \E i, j \in EventIdx :
        /\ ~IsNull(i) /\ ~IsNull(j)
        /\ DOMAIN events[i].own = {"caption"}
        /\ DOMAIN events[j].own = {"resourceClass", "resourceName"}
        /\ DOMAIN events[i].proto = {} /\ DOMAIN events[j].proto = {}
        /\ Len(CallsOf(i)) = 1 /\ Len(CallsOf(j)) = 1

\* C4: every call ever issued is addressed to org.toshy.Toshy,
\* /org/toshy/Toshy, org.toshy.Toshy, NotifyActiveWindow and carries exactly
\* three payload arguments.
C4_Addressing ==
    \A k \in 1 .. Len(calls) :
        /\ DOMAIN calls[k].msg = {"service", "path", "interface", "method", "args"}
        /\ calls[k].msg.service = "org.toshy.Toshy"
        /\ calls[k].msg.path = "/org/toshy/Toshy"
        /\ calls[k].msg.interface = "org.toshy.Toshy"
        /\ calls[k].msg.method = "NotifyActiveWindow"
        /\ Len(calls[k].msg.args) = 3

C4_Witness ==
    /\ Len(calls) >= 2
    /\ calls[1].msg.args # calls[2].msg.args

\* C5: the calls are as many as the events with a non-null handle, the log
\* lines as many as the events with a null handle, the calls are in the order
\* of their events, and two successive events with the same non-null handle
\* give two identical calls.
C5_CountsAndOrder ==
    /\ Len(calls) = Cardinality({i \in EventIdx : ~IsNull(i)})
    /\ Len(log) = Cardinality({i \in EventIdx : IsNull(i)})
    /\ \A k \in 1 .. Len(calls) :
          /\ calls[k].ev \in EventIdx
          /\ ~IsNull(calls[k].ev)
    /\ \A k, l \in 1 .. Len(calls) : k < l => calls[k].ev < calls[l].ev
    /\ \A i \in EventIdx :
          (i > 1 /\ ~IsNull(i) /\ events[i] = events[i - 1]) =>
              /\ Len(CallsOf(i - 1)) = 1
              /\ Len(CallsOf(i)) = 1
              /\ CallsOf(i)[1].msg = CallsOf(i - 1)[1].msg

C5_Witness ==
    \E i \in EventIdx :
        /\ i > 1 /\ ~IsNull(i) /\ events[i] = events[i - 1]
        /\ Len(calls) = i

\* C6: the handler is connected once, at load; the number of connections
\* stays 1 however many events are handled, so that each event enters
\* notifyActiveWindow exactly once.
C6_SubscribedOnce ==
    /\ pc = "load" => subscribers = <<>> /\ invocations = 0
    /\ pc = "running" => /\ subscribers = <<"notifyActiveWindow">>
                         /\ invocations = Len(events)

C6_Witness ==
    /\ pc = "running"
    /\ Len(events) >= 2
    /\ Len(subscribers) = 1

\* C7: an attribute present with the empty string as its value is sent as ""
\* and not as "UNDEF".
C7_EmptyString ==
    \A i \in EventIdx : \A n \in AttrNames :
        (~IsNull(i) /\ n \in DOMAIN events[i].own /\ events[i].own[n] = Str("")) =>
            /\ Len(CallsOf(i)) = 1
            /\ ArgOf(i, n) = Str("")
            /\ ArgOf(i, n) # Str("UNDEF")

C7_Witness ==
    \E i \in EventIdx : \E n \in AttrNames :
        /\ ~IsNull(i)
        /\ n \in DOMAIN events[i].own
        /\ events[i].own[n] = Str("")
        /\ Len(CallsOf(i)) = 1

\* C8: a call that fails is dispatched once only (no retry) and leaves no log
\* line, and every later event is handled as the same handle is handled when
\* no call before it has failed.
C8_FailedCall ==
    \A k \in 1 .. Len(calls) :
        calls[k].outcome = "failed" =>
            /\ Len(CallsOf(calls[k].ev)) = 1
            /\ LogOf(calls[k].ev) = <<>>
            /\ \A j \in EventIdx :
                  j > calls[k].ev =>
                      /\ Len(CallsOf(j)) + Len(LogOf(j)) = 1
                      /\ IsNull(j) <=> Len(LogOf(j)) = 1
                      /\ \A h \in EventIdx :
                            (events[h] = events[j] /\ NoFailureBefore(h)) =>
                                /\ Msgs(CallsOf(j)) = Msgs(CallsOf(h))
                                /\ Texts(LogOf(j)) = Texts(LogOf(h))

C8_Witness ==
    \E k \in 1 .. Len(calls) : \E j \in EventIdx :
        /\ calls[k].outcome = "failed"
        /\ j > calls[k].ev
        /\ events[j] = events[calls[k].ev]
        /\ NoFailureBefore(calls[k].ev)

\* C9: what an invocation dispatches and logs depends on its handle alone:
\* it is what the handler does with that handle when nothing has happened
\* before, and two events with the same handle give the same output.
C9_HistoryIndependent ==
    /\ \A i \in EventIdx : \A o \in Outcomes :
          /\ Msgs(CallsOf(i)) = Msgs(notifyActiveWindow(events[i], o, Fresh, i).calls)
          /\ Texts(LogOf(i)) = Texts(notifyActiveWindow(events[i], o, Fresh, i).log)
    /\ \A i, j \in EventIdx :
          events[i] = events[j] =>
              /\ Msgs(CallsOf(i)) = Msgs(CallsOf(j))
              /\ Texts(LogOf(i)) = Texts(LogOf(j))

C9_Witness ==
    \E i \in EventIdx :
        /\ i > 1
        /\ ~IsNull(i) /\ ~IsNull(i - 1)
        /\ DOMAIN events[i - 1].own = AttrNames
        /\ DOMAIN events[i].own = {}
        /\ Len(CallsOf(i)) = 1

\* C10: presence is an own-property test and nothing else: an attribute the
\* handle has only through its prototype is sent as "UNDEF", and an own
\* attribute whose value is null or undefined is sent as that value.
C10_OwnPropertyOnly ==
    \A i \in EventIdx : \A n \in AttrNames :
        ~IsNull(i) =>
            /\ Len(CallsOf(i)) = 1
            /\ (n \notin DOMAIN events[i].own /\ n \in DOMAIN events[i].proto)
                  => ArgOf(i, n) = Str("UNDEF")
            /\ (n \in DOMAIN events[i].own /\ events[i].own[n] \in {JSNull, JSUndefined})
                  => ArgOf(i, n) = events[i].own[n]

C10_Witness ==
    \E i, j \in EventIdx : \E n, m \in AttrNames :
        /\ ~IsNull(i) /\ ~IsNull(j)
        /\ n \notin DOMAIN events[i].own /\ n \in DOMAIN events[i].proto
        /\ m \in DOMAIN events[j].own /\ events[j].own[m] = JSUndefined
        /\ Len(CallsOf(i)) = 1 /\ Len(CallsOf(j)) = 1

====
